---- MODULE Spec2Model ----
(***************************************************************************)
(* AgriGrow map client (src/file.js): the click handler that requests an   *)
(* agricultural analysis for a coordinate and falls back to demo data, and *)
(* the free-text location search.                                          *)
(*                                                                         *)
(* Representation.                                                         *)
(*  - A coordinate is an integer number of 1/100000 degrees (23.69 is      *)
(*    2369000).  Number.toFixed(4) rounds it to 1/10000 degrees.           *)
(*  - A JavaScript value that may be undefined is a set: {} is undefined,  *)
(*    {v} is the value v.                                                  *)
(*  - A string the code inspects character by character (the search        *)
(*    query, a city name) is a sequence of one-character strings.          *)
(*  - Weather, soil and score numbers are integers in millionths of their  *)
(*    unit; Math.random() is a draw in thousandths, 0..999.                *)
(***************************************************************************)
EXTENDS Integers, Sequences, FiniteSets

(* ------------------------------ bounds -------------------------------- *)

\* Map clicks (inside or outside the box) in one run.
MaxClicks == 2

\* Search submissions in one run.
MaxSearches == 1

\* Length of the queries enumerated for the search specification.
MaxQueryLen == 5

(* ------------------------- program constants -------------------------- *)

MinLat == 2369000
MaxLat == 3698000
MinLon == 6087000
MaxLon == 7585000

CoordinateZoom == 12
CityZoom == 10
InitialZoom == 6

InitialCenter == <<3037530, 6934510>>

ClickAlert == "Please click within Pakistan boundaries!"
CoordinateAlert == "Coordinates outside Pakistan boundaries!"
CityAlert == "City not found! Try: Karachi, Lahore, Islamabad, etc."

AlertMessages == {ClickAlert, CoordinateAlert, CityAlert}

(* --------------------------- JavaScript values ------------------------ *)

Undefined == {}

Some(v) == {v}

Get(o) == CHOOSE v \in o : TRUE

\* Number.prototype.toFixed(4) of x/100000: x rounded to the nearest 10
\* (half away from zero), in 1/10000 degrees.
toFixed4(x) == IF x >= 0 THEN (x + 5) \div 10 ELSE -((-x + 5) \div 10)

(* ----------------------------- createDemoData ------------------------- *)

\* One Math.random() call per randomised field, in the order the object
\* literal evaluates them.
RandomFields == 11

\* The draws of Math.random() the model considers for one createDemoData
\* call: every draw at the bottom of [0,1), and draws alternating between
\* the top and the middle.
RandomDraws ==
    { [i \in 1..RandomFields |-> 0],
      [i \in 1..RandomFields |-> IF i % 2 = 0 THEN 500 ELSE 999] }

createDemoData(lat, lon, rnd) ==
    [ location |-> Some(
          [ latitude |-> Some(lat),
            longitude |-> Some(lon),
            region |-> Some(IF lat > 3100000 THEN "Punjab"
                            ELSE IF lat > 2700000 THEN "Sindh"
                            ELSE "Balochistan") ]),
      weather |-> Some(
          [ temperature |-> Some(25000000 + rnd[1] * 15000),
            humidity |-> Some(40000000 + rnd[2] * 40000),
            rainfall |-> Some(rnd[3] * 10000),
            wind_speed |-> Some(5000000 + rnd[4] * 15000),
            date |-> Some("toISOString") ]),
      soil |-> Some(
          [ ph |-> Some(6500000 + rnd[5] * 2000),
            organic_matter |-> Some(1000000 + rnd[6] * 2000),
            nitrogen |-> Some(20000 + rnd[7] * 50),
            phosphorus |-> Some(8000000 + rnd[8] * 15000),
            potassium |-> Some(100000000 + rnd[9] * 150000),
            soil_type |-> Some("Alluvial") ]),
      crop_recommendations |-> Some(
          << [ crop_name |-> Some("Wheat"),
               suitability_score |-> Some(7000000 + rnd[10] * 2000),
               irrigation_need |-> Some(450),
               fertilizer_npk |-> Some("120-60-60"),
               season |-> Some("Rabi"),
               planting_months |-> Some(<<"November", "December">>) ],
             [ crop_name |-> Some("Rice"),
               suitability_score |-> Some(6000000 + rnd[11] * 2000),
               irrigation_need |-> Some(1200),
               fertilizer_npk |-> Some("120-90-60"),
               season |-> Some("Kharif"),
               planting_months |-> Some(<<"May", "June">>) ] >>) ]

(* --------------------------- createPopupContent ----------------------- *)

\* `data` is a possibly-undefined analysis object.  Reading a property of
\* undefined, or calling toFixed on an undefined latitude/longitude, throws a
\* TypeError out of createPopupContent; a missing leaf that is only
\* interpolated into the template does not throw.
createPopupContentThrows(data) ==
    \/ data = Undefined
    \/ Get(data).location = Undefined
    \/ Get(Get(data).location).latitude = Undefined
    \/ Get(Get(data).location).longitude = Undefined
    \/ Get(data).weather = Undefined
    \/ Get(data).soil = Undefined

\* One entry of cropsHtml.  A missing planting_months renders 'N/A', every
\* other missing field renders as the text "undefined" (here: {}).
RenderCrop(crop) ==
    [ crop_name |-> crop.crop_name,
      suitability_score |-> crop.suitability_score,
      irrigation_need |-> crop.irrigation_need,
      fertilizer_npk |-> crop.fertilizer_npk,
      season |-> crop.season,
      planting |-> IF crop.planting_months # Undefined
                   THEN Get(crop.planting_months)
                   ELSE <<"N/A">> ]

\* The popup markup, as the values it displays.  isCached is a possibly
\* undefined boolean; the badge is shown when it is truthy.
createPopupContent(data, isCached) ==
    LET d == Get(data)
        weather == Get(d.weather)
        soil == Get(d.soil)
        recommendations == d.crop_recommendations
        location == Get(d.location)
        hasCrops == recommendations # Undefined /\ Len(Get(recommendations)) > 0
    IN  [ kind |-> "report",
          cacheBadge |-> (isCached = Some(TRUE)),
          region |-> IF location.region # Undefined /\ Get(location.region) # ""
                     THEN Get(location.region)
                     ELSE "Pakistan",
          coordinates |-> << toFixed4(Get(location.latitude)),
                             toFixed4(Get(location.longitude)) >>,
          weather |-> [ temperature |-> weather.temperature,
                        humidity |-> weather.humidity,
                        rainfall |-> weather.rainfall,
                        wind_speed |-> weather.wind_speed ],
          soil |-> [ ph |-> soil.ph,
                     soil_type |-> soil.soil_type,
                     nitrogen |-> soil.nitrogen,
                     phosphorus |-> soil.phosphorus,
                     potassium |-> soil.potassium,
                     organic_matter |-> soil.organic_matter ],
          noCropsPlaceholder |-> ~hasCrops,
          crops |-> IF hasCrops
                    THEN [ i \in 1..Len(Get(recommendations)) |->
                             RenderCrop(Get(recommendations)[i]) ]
                    ELSE << >> ]

\* A popup that opens with demo data instead of the spinner.
DemoWhileLoading ==
    createPopupContent(
        Some(createDemoData(3000000, 7000000, [i \in 1..RandomFields |-> 0])),
        Some(FALSE))

\* The content the popup is created with (line 156).
LoadingContent == [ kind |-> "loading" ]

(* --------------------------- response payloads ------------------------ *)

\* Values a server may report; chosen apart from everything createDemoData
\* can produce, and from every coordinate that is clicked.
ServerLocation ==
    [ latitude |-> Some(3456784), longitude |-> Some(7234566),
      region |-> Some("KPK") ]

ServerWeather ==
    [ temperature |-> Some(18500000), humidity |-> Some(55000000),
      rainfall |-> Some(2500000), wind_speed |-> Some(11000000) ]

ServerSoil ==
    [ ph |-> Some(7100000), soil_type |-> Some("Clay loam"),
      nitrogen |-> Some(45000), phosphorus |-> Some(12000000),
      potassium |-> Some(180000000), organic_matter |-> Some(1500000) ]

ServerCrop ==
    [ crop_name |-> Some("Maize"), suitability_score |-> Some(8200000),
      irrigation_need |-> Some(600), fertilizer_npk |-> Some("150-75-60"),
      season |-> Some("Kharif"),
      planting_months |-> Some(<<"February", "March">>) ]

Envelope(cached, data) == [ cached |-> cached, data |-> data ]

AnalysisData(location, weather, soil, crops) ==
    [ location |-> location, weather |-> weather, soil |-> soil,
      crop_recommendations |-> crops ]

FullData ==
    AnalysisData(Some(ServerLocation), Some(ServerWeather), Some(ServerSoil),
                 Some(<<ServerCrop>>))

\* Parsed bodies with every field of the envelope present.
WellFormedBodies ==
    { Some(Envelope(Some(TRUE), Some(FullData))),
      Some(Envelope(Some(FALSE), Some(FullData))),
      Some(Envelope(Some(TRUE),
          Some(AnalysisData(Some(ServerLocation), Some(ServerWeather),
                            Some(ServerSoil), Some(<< >>))))) }

\* Parsed bodies of a 2xx response with one field missing each (the server
\* reports cached = true in all of them, unless that is the missing field),
\* and the JSON value null.
MalformedBodies ==
    { Undefined,
      Some(Envelope(Undefined, Some(FullData))),
      Some(Envelope(Some(TRUE), Undefined)),
      Some(Envelope(Some(TRUE), Some([FullData EXCEPT !.location = Undefined]))),
      Some(Envelope(Some(TRUE), Some([FullData EXCEPT !.location =
          Some([ServerLocation EXCEPT !.latitude = Undefined])]))),
      Some(Envelope(Some(TRUE), Some([FullData EXCEPT !.location =
          Some([ServerLocation EXCEPT !.longitude = Undefined])]))),
      Some(Envelope(Some(TRUE), Some([FullData EXCEPT !.location =
          Some([ServerLocation EXCEPT !.region = Undefined])]))),
      Some(Envelope(Some(TRUE), Some([FullData EXCEPT !.weather = Undefined]))),
      Some(Envelope(Some(TRUE), Some([FullData EXCEPT !.weather =
          Some([ServerWeather EXCEPT !.temperature = Undefined])]))),
      Some(Envelope(Some(TRUE), Some([FullData EXCEPT !.soil = Undefined]))),
      Some(Envelope(Some(TRUE), Some([FullData EXCEPT !.soil =
          Some([ServerSoil EXCEPT !.ph = Undefined])]))),
      Some(Envelope(Some(TRUE), Some([FullData EXCEPT
          !.crop_recommendations = Undefined]))),
      Some(Envelope(Some(TRUE), Some([FullData EXCEPT
          !.crop_recommendations =
              Some(<<[ServerCrop EXCEPT !.planting_months = Undefined]>>)]))) }

Bodies == WellFormedBodies \cup MalformedBodies

(* ------------------------------- state -------------------------------- *)

VARIABLES
    clicks,         \* one record per click event: the handler's activation
    requests,       \* the fetch() calls issued, in order
    popups,         \* the content of every popup created by a click
    alerts,         \* how often each alert() message has been shown
    view,           \* the map's centre and zoom
    markers,        \* the markers (with bound popup) added by searches
    searchInput,    \* value of the #searchInput box
    query,          \* the trimmed query of the last searchLocation call
    searches,       \* searchLocation calls so far
    flyToPending,   \* the setTimeout(flyTo) of start-up has not fired yet
    majorCities     \* the city registry

vars == << clicks, requests, popups, alerts, view, markers, searchInput,
           query, searches, flyToPending, majorCities >>

clickVars == << clicks, requests, popups >>

searchVars == << view, markers, searchInput, query, searches >>

\* Coordinates the map reports for a click: both corners of the box, a point
\* in each demo region, and one point just outside each side.
ClickCoordinates ==
    { <<2369000, 6087000>>, <<3698000, 7585000>>, <<3000004, 7000000>>,
      <<2368999, 7000000>>, <<3698001, 7000000>>,
      <<3000004, 6086999>>, <<3000004, 7585001>> }

(* ---------------------------- click handler --------------------------- *)

\* The geofence test with the comparisons made non-strict: a click on the
\* edge of the box is turned away.
OutsideBoundsStrict(lat, lon) ==
    lat <= MinLat \/ lat >= MaxLat \/ lon <= MinLon \/ lon >= MaxLon

\* The geofence test of the click handler.
OutsideBounds(lat, lon) ==
    lat < MinLat \/ lat > MaxLat \/ lon < MinLon \/ lon > MaxLon

\* One popup variable shared by all activations: the newest popup.
loadingPopupShared(i) == Len(popups)

\* The popup the handler activation i closed over.
loadingPopup(i) == clicks[i].popup

\* A catch block that reports the failure in the popup.
CatchBlockShowsError(c, rnd) ==
    [ pc |-> "fallback", content |-> Some([ kind |-> "error" ]) ]

\* The catch block for the click c: what the popup is set to, and where the
\* handler ends.  An exception thrown inside the catch block would leave the
\* async function rejected and the popup untouched.
CatchBlock(c, rnd) ==
    LET demoData == Some(createDemoData(c.lat, c.lon, rnd))
    IN  IF createPopupContentThrows(demoData)
        THEN [ pc |-> "uncaught", content |-> Undefined ]
        ELSE [ pc |-> "fallback",
               content |-> Some(createPopupContent(demoData, Some(FALSE))) ]

\* Every field of the envelope {cached, data: AnalysisResult} is present.
EnvelopeComplete(result) ==
    /\ result # Undefined
    /\ Get(result).cached # Undefined
    /\ Get(result).data # Undefined
    /\ LET d == Get(Get(result).data)
       IN  /\ d.location # Undefined
           /\ \A f \in { "latitude", "longitude", "region" } :
                  Get(d.location)[f] # Undefined
           /\ d.weather # Undefined
           /\ \A f \in { "temperature", "humidity", "rainfall", "wind_speed" } :
                  Get(d.weather)[f] # Undefined
           /\ d.soil # Undefined
           /\ \A f \in { "ph", "soil_type", "nitrogen", "phosphorus",
                         "potassium", "organic_matter" } :
                  Get(d.soil)[f] # Undefined
           /\ d.crop_recommendations # Undefined
           /\ \A k \in DOMAIN Get(d.crop_recommendations) :
                  \A f \in { "crop_name", "suitability_score", "irrigation_need",
                             "fertilizer_npk", "season", "planting_months" } :
                      Get(d.crop_recommendations)[k][f] # Undefined

\* A try block that validates the envelope and throws on any missing field.
TryBlockValidating(c, result, rnd) ==
    IF ~EnvelopeComplete(result)
    THEN CatchBlock(c, rnd)
    ELSE [ pc |-> "rendered",
           content |-> Some(createPopupContent(Get(result).data,
                                               Get(result).cached)) ]

\* A try block that renders without the server's cached flag.
TryBlockDropsCached(c, result, rnd) ==
    IF result = Undefined \/ createPopupContentThrows(Get(result).data)
    THEN CatchBlock(c, rnd)
    ELSE [ pc |-> "rendered",
           content |-> Some(createPopupContent(Get(result).data, Undefined)) ]

\* A try block whose rendering error is not caught.
TryBlockUncaught(c, result, rnd) ==
    IF result = Undefined \/ createPopupContentThrows(Get(result).data)
    THEN [ pc |-> "uncaught", content |-> Undefined ]
    ELSE [ pc |-> "rendered",
           content |-> Some(createPopupContent(Get(result).data,
                                               Get(result).cached)) ]

\* Lines 173-177 for the parsed body `result`; a TypeError (result is null,
\* or createPopupContent throws) goes to the catch block.
TryBlock(c, result, rnd) ==
    IF result = Undefined \/ createPopupContentThrows(Get(result).data)
    THEN CatchBlock(c, rnd)
    ELSE [ pc |-> "rendered",
           content |-> Some(createPopupContent(Get(result).data,
                                               Get(result).cached)) ]

\* The handler activation i moves on: its request becomes `state`, its
\* position and (when set) its popup's content those of `out`.
Settle(i, state, result, out) ==
    /\ requests' = [requests EXCEPT ![clicks[i].request].state = state]
    /\ clicks' = [clicks EXCEPT ![i].pc = out.pc, ![i].result = result]
    /\ popups' = IF out.content = Undefined
                 THEN popups
                 ELSE [popups EXCEPT ![loadingPopup(i)] = Get(out.content)]
    /\ UNCHANGED << alerts, searchVars, flyToPending, majorCities >>

Click(lat, lon) ==
    /\ Len(clicks) < MaxClicks
    /\ IF OutsideBounds(lat, lon)
       THEN /\ alerts' = [alerts EXCEPT ![ClickAlert] = @ + 1]
            /\ clicks' = Append(clicks,
                   [ lat |-> lat, lon |-> lon, pc |-> "rejected",
                     popup |-> 0, request |-> 0, result |-> Undefined ])
            /\ UNCHANGED << requests, popups >>
       ELSE /\ popups' = Append(popups, LoadingContent)
            /\ requests' = Append(requests,
                   [ lat |-> lat, lon |-> lon, state |-> "pending" ])
            /\ clicks' = Append(clicks,
                   [ lat |-> lat, lon |-> lon, pc |-> "awaitFetch",
                     popup |-> Len(popups) + 1, request |-> Len(requests) + 1,
                     result |-> Undefined ])
            /\ UNCHANGED alerts
    /\ UNCHANGED << searchVars, flyToPending, majorCities >>

\* fetch() resolves with a response whose status is 2xx: the handler calls
\* response.json() and is suspended again.
FetchOk(i) ==
    /\ clicks[i].pc = "awaitFetch"
    /\ Settle(i, "status2xx", Undefined,
              [ pc |-> "awaitJson", content |-> Undefined ])

\* fetch() resolves with a response whose status is not 2xx: line 169 throws.
FetchNotOk(i, rnd) ==
    /\ clicks[i].pc = "awaitFetch"
    /\ Settle(i, "non2xx", Undefined, CatchBlock(clicks[i], rnd))

\* fetch() rejects: network error, refused connection, transport timeout.
FetchReject(i, rnd) ==
    /\ clicks[i].pc = "awaitFetch"
    /\ Settle(i, "networkError", Undefined, CatchBlock(clicks[i], rnd))

\* response.json() resolves with the parsed body.
JsonResolve(i, result, rnd) ==
    /\ clicks[i].pc = "awaitJson"
    /\ Settle(i, "bodyParsed", result, TryBlock(clicks[i], result, rnd))

\* response.json() rejects: the body is not JSON, or the stream broke.
JsonReject(i, rnd) ==
    /\ clicks[i].pc = "awaitJson"
    /\ Settle(i, "bodyError", Undefined, CatchBlock(clicks[i], rnd))

\* The one-shot timer of start-up.
FlyTo ==
    /\ flyToPending
    /\ flyToPending' = FALSE
    /\ view' = [ center |-> InitialCenter, zoom |-> InitialZoom ]
    /\ UNCHANGED << clickVars, alerts, markers, searchInput, query, searches,
                    majorCities >>

(* ------------------------------- strings ------------------------------ *)

Digits == << "0", "1", "2", "3", "4", "5", "6", "7", "8", "9" >>

UpperCase == << "A", "B", "C", "D", "E", "F", "G", "H", "I", "J", "K", "L", "M",
                "N", "O", "P", "Q", "R", "S", "T", "U", "V", "W", "X", "Y", "Z" >>

LowerCase == << "a", "b", "c", "d", "e", "f", "g", "h", "i", "j", "k", "l", "m",
                "n", "o", "p", "q", "r", "s", "t", "u", "v", "w", "x", "y", "z" >>

Range(f) == { f[i] : i \in DOMAIN f }

\* \d of the pattern.
IsDigit(ch) == ch \in Range(Digits)

\* \s of the pattern, and what trim() strips.
IsSpace(ch) == ch \in { " ", "\t", "\n" }

\* String.prototype.trim.
trim(str) ==
    LET kept == { i \in 1..Len(str) : ~IsSpace(str[i]) }
    IN  IF kept = {} THEN << >>
        ELSE SubSeq(str, CHOOSE i \in kept : \A j \in kept : i <= j,
                         CHOOSE i \in kept : \A j \in kept : i >= j)

\* String.prototype.toLowerCase.
toLowerCase(str) ==
    [ i \in 1..Len(str) |->
        IF str[i] \in Range(UpperCase)
        THEN LowerCase[CHOOSE k \in 1..Len(UpperCase) : UpperCase[k] = str[i]]
        ELSE str[i] ]

\* String.prototype.includes.
includes(str, part) ==
    \E i \in 0..(Len(str) - Len(part)) : SubSeq(str, i + 1, i + Len(part)) = part

\* str[from..to] matches the whole of -?\d+\.?\d*
MatchesNumber(str, from, to) ==
    LET first == IF from <= to /\ str[from] = "-" THEN from + 1 ELSE from
    IN  \E k \in first..to :
            /\ \A j \in first..k : IsDigit(str[j])
            /\ \/ k = to
               \/ /\ str[k + 1] = "."
                  /\ \A j \in (k + 2)..to : IsDigit(str[j])

\* The matches of /(-?\d+\.?\d*),\s*(-?\d+\.?\d*)/ in str, as
\* <<start of group 1, end of group 1, start of group 2, end of group 2>>.
\* The pattern is not anchored: a match may start and end anywhere.  Group 1
\* ends right before a comma; group 2 starts after the comma and any
\* whitespace that follows it.
PatternMatches(str) ==
    LET commas == { c \in 2..(Len(str) - 1) : str[c] = "," }
        afterSpaces(c) ==
            CHOOSE k \in (c + 1)..(Len(str) + 1) :
                /\ \A j \in (c + 1)..(k - 1) : IsSpace(str[j])
                /\ k = Len(str) + 1 \/ ~IsSpace(str[k])
    IN  UNION { { << from, c - 1, afterSpaces(c), to >> :
                    from \in { f \in 1..(c - 1) : MatchesNumber(str, f, c - 1) },
                    to \in { t \in afterSpaces(c)..Len(str) :
                               MatchesNumber(str, afterSpaces(c), t) } } :
                c \in commas }

\* The pattern anchored at both ends: only a query that is a coordinate pair
\* and nothing else matches.
coordMatchAnchored(str) ==
    LET whole == { m \in PatternMatches(str) : m[1] = 1 /\ m[4] = Len(str) }
    IN  IF whole = {} THEN Undefined
        ELSE LET m == CHOOSE m \in whole : TRUE
             IN  Some(<< SubSeq(str, m[1], m[2]), SubSeq(str, m[3], m[4]) >>)

\* String.prototype.match with that pattern: undefined (null) when nothing
\* matches, else the two captured groups of the leftmost match, every
\* quantifier greedy (so the second number extends as far as it can).
coordMatch(str) ==
    LET all == PatternMatches(str)
    IN  IF all = {} THEN Undefined
        ELSE LET start == CHOOSE a \in { m[1] : m \in all } :
                              \A m \in all : a <= m[1]
                 atStart == { m \in all : m[1] = start }
                 best == CHOOSE m \in atStart : \A n \in atStart : n[4] <= m[4]
             IN  Some(<< SubSeq(str, best[1], best[2]),
                         SubSeq(str, best[3], best[4]) >>)

RECURSIVE DigitsValue(_)
\* The number a run of decimal digits denotes.
DigitsValue(ds) ==
    IF ds = << >> THEN 0
    ELSE 10 * DigitsValue(SubSeq(ds, 1, Len(ds) - 1))
         + ((CHOOSE k \in 1..10 : Digits[k] = ds[Len(ds)]) - 1)

RECURSIVE Pow10(_)
Pow10(n) == IF n = 0 THEN 1 ELSE 10 * Pow10(n - 1)

\* parseFloat of a captured group (sign, digits, optional point and digits),
\* in 1/100000: exact up to five decimals, which covers every query that is
\* enumerated; further decimals are dropped.
parseFloat(str) ==
    LET negative == str[1] = "-"
        body == IF negative THEN Tail(str) ELSE str
        points == { i \in 1..Len(body) : body[i] = "." }
        point == IF points = {} THEN Len(body) + 1 ELSE CHOOSE i \in points : TRUE
        whole == SubSeq(body, 1, point - 1)
        decimals == SubSeq(body, point + 1, Len(body))
        kept == IF Len(decimals) > 5 THEN SubSeq(decimals, 1, 5) ELSE decimals
        magnitude == DigitsValue(whole) * 100000
                     + DigitsValue(kept) * Pow10(5 - Len(kept))
    IN  IF negative THEN -magnitude ELSE magnitude

(* ---------------------------- searchLocation -------------------------- *)

\* The value majorCities is initialised with.
CityRegistry ==
    << [ name |-> <<"K","a","r","a","c","h","i">>,
         lat |-> 2486070, lon |-> 6700110, province |-> "Sindh" ],
       [ name |-> <<"L","a","h","o","r","e">>,
         lat |-> 3158040, lon |-> 7435870, province |-> "Punjab" ],
       [ name |-> <<"F","a","i","s","a","l","a","b","a","d">>,
         lat |-> 3145040, lon |-> 7313500, province |-> "Punjab" ],
       [ name |-> <<"R","a","w","a","l","p","i","n","d","i">>,
         lat |-> 3356510, lon |-> 7301690, province |-> "Punjab" ],
       [ name |-> <<"M","u","l","t","a","n">>,
         lat |-> 3015750, lon |-> 7152490, province |-> "Punjab" ],
       [ name |-> <<"H","y","d","e","r","a","b","a","d">>,
         lat |-> 2539600, lon |-> 6835780, province |-> "Sindh" ],
       [ name |-> <<"P","e","s","h","a","w","a","r">>,
         lat |-> 3401510, lon |-> 7152490, province |-> "KPK" ],
       [ name |-> <<"Q","u","e","t","t","a">>,
         lat |-> 3017980, lon |-> 6697500, province |-> "Balochistan" ] >>

\* majorCities.find(c => c.name.toLowerCase().includes(q.toLowerCase())):
\* the first city in registry order, undefined when there is none.
findCity(q) ==
    LET hits == { k \in 1..Len(majorCities) :
                    includes(toLowerCase(majorCities[k].name), toLowerCase(q)) }
    IN  IF hits = {} THEN Undefined
        ELSE Some(majorCities[CHOOSE k \in hits : \A j \in hits : k <= j])

\* The geofence test of the coordinate branch.
InsideBounds(lat, lon) ==
    lat >= MinLat /\ lat <= MaxLat /\ lon >= MinLon /\ lon <= MaxLon

\* map.setView(center, zoom), then L.marker(center).bindPopup(text).openPopup()
Resolve(lat, lon, zoom, text) ==
    /\ view' = [ center |-> <<lat, lon>>, zoom |-> zoom ]
    /\ markers' = Append(markers, [ lat |-> lat, lon |-> lon, popup |-> text ])
    /\ UNCHANGED alerts

\* A rejection that shows no message.
RejectSilently(message) ==
    UNCHANGED << alerts, view, markers >>

\* A rejection that also sends the map back to its initial view.
RejectAndResetView(message) ==
    /\ alerts' = [alerts EXCEPT ![message] = @ + 1]
    /\ view' = [ center |-> InitialCenter, zoom |-> InitialZoom ]
    /\ UNCHANGED markers

Reject(message) ==
    /\ alerts' = [alerts EXCEPT ![message] = @ + 1]
    /\ UNCHANGED << view, markers >>

\* The query is empty after trim: the function returns before it does
\* anything else; the input box keeps its (blank) value.
SearchEmpty(q) ==
    /\ q = << >>
    /\ UNCHANGED << alerts, view, markers, searchInput >>

\* The pattern matches somewhere in the query (coordMatch is the result of
\* query.match).
SearchCoordinates(q, match) ==
    LET lat == parseFloat(Get(match)[1])
        lon == parseFloat(Get(match)[2])
    IN  /\ q # << >>
        /\ match # Undefined
        /\ IF InsideBounds(lat, lon)
           THEN Resolve(lat, lon, CoordinateZoom,
                        [ kind |-> "coordinates",
                          lat |-> toFixed4(lat), lon |-> toFixed4(lon) ])
           ELSE Reject(CoordinateAlert)
        /\ searchInput' = << >>

\* The pattern matches nowhere: look the query up among the cities.
SearchCity(q, match) ==
    LET city == findCity(q)
    IN  /\ q # << >>
        /\ match = Undefined
        /\ IF city # Undefined
           THEN Resolve(Get(city).lat, Get(city).lon, CityZoom,
                        [ kind |-> "city", name |-> Get(city).name,
                          province |-> Get(city).province ])
           ELSE Reject(CityAlert)
        /\ searchInput' = << >>

searchLocation ==
    LET q == trim(searchInput)
        match == coordMatch(q)
    IN  /\ searches < MaxSearches
        /\ searches' = searches + 1
        /\ query' = q
        /\ \/ SearchEmpty(q)
           \/ SearchCoordinates(q, match)
           \/ SearchCity(q, match)
        /\ UNCHANGED << clickVars, flyToPending, majorCities >>

\* Queries of the specification text and a few more: blanks, a city the
\* registry lacks, a match by substring, a boundary coordinate, whitespace
\* before the comma, and coordinates embedded in other text.
ExampleQueries ==
    { << >>, << " ", " " >>,
      << "l","a","h","o","r","e" >>,
      << " ","P","E","S","H"," " >>,
      << "i","s","l","a","m","a","b","a","d" >>,
      << "3","1",".","5","8","0","4",","," ","7","4",".","3","5","8","7" >>,
      << "1","0","0",","," ","1","0","0" >>,
      << "3","6",".","9","8",",","7","5",".","8","5" >>,
      << "3","3"," ",","," ","7","3" >>,
      << "Q","u","e","t","t","a"," ","3","0",".","1","8",",","6","6",".","9","7" >>,
      << "-","3","0",",","7","0" >>,
      << "3","1",".",","," "," ","7","4",".","x" >> }

\* The characters of the enumerated queries: two digits (33 and 37 are
\* latitudes inside and outside the box, 73 and 77 longitudes), the other
\* characters of the pattern, whitespace and a capital letter.
QueryAlphabet == { "3", "7", "-", ".", ",", " ", "L" }

\* Every query of at most MaxQueryLen characters over the alphabet.
EnumeratedQueries ==
    UNION { [ 1..n -> QueryAlphabet ] : n \in 0..MaxQueryLen }

\* The queries typed into the box while clicks are being handled: a city of
\* the registry and a coordinate inside the box.  (The search on its own is
\* explored over every enumerated query by SearchSpec.)
TypedQueries ==
    { << "l","a","h","o","r","e" >>,
      << "3","6",".","9","8",",","7","5",".","8","5" >> }

\* The user edits the search box.
TypeQuery(q) ==
    /\ searches < MaxSearches
    /\ searchInput = << >>
    /\ searchInput' = q
    /\ UNCHANGED << clickVars, alerts, view, markers, query, searches,
                    flyToPending, majorCities >>

(* ---------------------------- specifications -------------------------- *)

Init ==
    /\ clicks = << >>
    /\ requests = << >>
    /\ popups = << >>
    /\ alerts = [ m \in AlertMessages |-> 0 ]
    /\ view = [ center |-> InitialCenter, zoom |-> InitialZoom ]
    /\ markers = << >>
    /\ searchInput = << >>
    /\ query = << >>
    /\ searches = 0
    /\ flyToPending = TRUE
    /\ majorCities = CityRegistry

Next ==
    \/ \E c \in ClickCoordinates : Click(c[1], c[2])
    \/ \E i \in DOMAIN clicks : FetchOk(i)
    \/ \E i \in DOMAIN clicks, rnd \in RandomDraws : FetchNotOk(i, rnd)
    \/ \E i \in DOMAIN clicks, rnd \in RandomDraws : FetchReject(i, rnd)
    \/ \E i \in DOMAIN clicks, result \in Bodies, rnd \in RandomDraws :
           JsonResolve(i, result, rnd)
    \/ \E i \in DOMAIN clicks, rnd \in RandomDraws : JsonReject(i, rnd)
    \/ \E q \in TypedQueries : TypeQuery(q)
    \/ searchLocation
    \/ FlyTo

Spec == Init /\ [][Next]_vars

\* The views the search may find the map in: the view set at start-up, and
\* one the user has dragged and zoomed the map to.
UserViews ==
    { [ center |-> InitialCenter, zoom |-> InitialZoom ],
      [ center |-> <<2512340, 6710450>>, zoom |-> 9 ] }

\* The search alone: the page after the start-up timer has fired, with the
\* query already in the box.  Every enumerated query is searched on the map
\* as loaded, the example queries also on a map the user has moved.
InitSearch ==
    /\ clicks = << >>
    /\ requests = << >>
    /\ popups = << >>
    /\ alerts = [ m \in AlertMessages |-> 0 ]
    /\ \/ /\ searchInput \in EnumeratedQueries
          /\ view = [ center |-> InitialCenter, zoom |-> InitialZoom ]
       \/ /\ searchInput \in ExampleQueries
          /\ view \in UserViews
    /\ markers = << >>
    /\ query = << >>
    /\ searches = 0
    /\ flyToPending = FALSE
    /\ majorCities = CityRegistry

NextSearch == searchLocation

SearchSpec == InitSearch /\ [][NextSearch]_vars

(* ======================= claims about the click handler ================ *)

\* The inclusive bounding box as the specification states it.
InBox(lat, lon) ==
    MinLat <= lat /\ lat <= MaxLat /\ MinLon <= lon /\ lon <= MaxLon

InBoxClicks == { i \in DOMAIN clicks : InBox(clicks[i].lat, clicks[i].lon) }

PopupOf(i) == popups[clicks[i].popup]

RequestOf(i) == requests[clicks[i].request]

\* content is the report of createDemoData(lat, lon), for some draws, without
\* the cached badge.
IsDemoReport(content, lat, lon) ==
    /\ content.kind = "report"
    /\ content.cacheBadge = FALSE
    /\ content.coordinates = << toFixed4(lat), toFixed4(lon) >>
    /\ \E rnd \in RandomDraws :
           content = createPopupContent(Some(createDemoData(lat, lon, rnd)),
                                        Some(FALSE))

\* C1: the requests issued are exactly one per click inside the inclusive
\* box, for that click's coordinate, whatever else is in flight; a click
\* outside the box gets the rejection alert, no request and no popup.
C1_OneRequestPerInBoundsClick ==
    /\ Len(requests) = Cardinality(InBoxClicks)
    /\ Len(popups) = Cardinality(InBoxClicks)
    /\ alerts[ClickAlert] = Len(clicks) - Cardinality(InBoxClicks)
    /\ \A i \in DOMAIN clicks :
           IF InBox(clicks[i].lat, clicks[i].lon)
           THEN /\ clicks[i].request \in DOMAIN requests
                /\ RequestOf(i).lat = clicks[i].lat
                /\ RequestOf(i).lon = clicks[i].lon
                /\ clicks[i].pc # "rejected"
           ELSE /\ clicks[i].pc = "rejected"
                /\ clicks[i].request = 0
                /\ clicks[i].popup = 0
    /\ \A i, j \in InBoxClicks : i # j => clicks[i].request # clicks[j].request

\* Two clicks on the same boundary coordinate, both requests in flight.
C1_Witness ==
    /\ Len(clicks) = 2
    /\ clicks[1].lat = MinLat /\ clicks[1].lon = MinLon
    /\ clicks[2].lat = MinLat /\ clicks[2].lon = MinLon
    /\ Len(requests) = 2
    /\ requests[1].state = "pending" /\ requests[2].state = "pending"

\* C2: a click whose request failed in transport or came back non-2xx ends
\* in the catch block, its popup showing the demo report for the clicked
\* coordinate without the cached badge; no handler ends with an uncaught
\* error and no popup shows an error.
C2_FailureFallsBackToDemo ==
    /\ \A i \in InBoxClicks :
           RequestOf(i).state \in { "networkError", "non2xx" } =>
               /\ clicks[i].pc = "fallback"
               /\ IsDemoReport(PopupOf(i), clicks[i].lat, clicks[i].lon)
    /\ \A i \in DOMAIN clicks : clicks[i].pc # "uncaught"
    /\ \A p \in DOMAIN popups : popups[p].kind \in { "loading", "report" }

\* One click failed in transport and one got a non-2xx status.
C2_Witness ==
    /\ Len(clicks) = 2
    /\ InBoxClicks = { 1, 2 }
    /\ RequestOf(1).state = "networkError"
    /\ RequestOf(2).state = "non2xx"
    /\ PopupOf(1).region = "Balochistan"
    /\ PopupOf(2).region = "Punjab"

\* The parsed body lacks something createPopupContent dereferences: it is
\* null, or data, location, latitude, longitude, weather or soil is missing.
RenderingThrows(result) ==
    \/ result = Undefined
    \/ Get(result).data = Undefined
    \/ \E f \in { "location", "weather", "soil" } :
           Get(Get(result).data)[f] = Undefined
    \/ \E f \in { "latitude", "longitude" } :
           Get(Get(Get(result).data).location)[f] = Undefined

\* The popup shows the payload itself: what is present as sent, a missing
\* region as "Pakistan", a missing or empty crop list as the placeholder,
\* the badge only for cached = true.
ShowsPayload(content, result) ==
    LET d == Get(Get(result).data)
        crops == d.crop_recommendations
    IN  /\ content.kind = "report"
        /\ content.cacheBadge = (Get(result).cached = Some(TRUE))
        /\ content.coordinates =
               << toFixed4(Get(Get(d.location).latitude)),
                  toFixed4(Get(Get(d.location).longitude)) >>
        /\ content.region = IF Get(d.location).region = Undefined
                            THEN "Pakistan"
                            ELSE Get(Get(d.location).region)
        /\ \A f \in DOMAIN content.weather :
               content.weather[f] = Get(d.weather)[f]
        /\ \A f \in DOMAIN content.soil : content.soil[f] = Get(d.soil)[f]
        /\ content.noCropsPlaceholder = (crops = Undefined \/ Get(crops) = << >>)
        /\ Len(content.crops) = IF crops = Undefined THEN 0 ELSE Len(Get(crops))
        /\ \A k \in DOMAIN content.crops :
               /\ \A f \in { "crop_name", "suitability_score", "irrigation_need",
                             "fertilizer_npk", "season" } :
                      content.crops[k][f] = Get(crops)[k][f]
               /\ content.crops[k].planting =
                      IF Get(crops)[k].planting_months = Undefined
                      THEN <<"N/A">>
                      ELSE Get(Get(crops)[k].planting_months)

\* C3 as claimed: a 2xx response whose payload misses any field of the
\* envelope ends like a transport failure, with demo data and no badge.
C3_AnyMissingFieldFallsBack ==
    \A i \in InBoxClicks :
        (RequestOf(i).state = "bodyParsed" /\ ~EnvelopeComplete(clicks[i].result))
            => /\ clicks[i].pc = "fallback"
               /\ IsDemoReport(PopupOf(i), clicks[i].lat, clicks[i].lon)

\* C3, amended: a 2xx response ends like a transport failure exactly when
\* rendering it throws (body null, or data, location, latitude, longitude,
\* weather or soil missing); with any other field missing the popup is
\* rendered from the incomplete payload.
C3_MissingFieldFallsBackOnlyIfRenderingThrows ==
    \A i \in InBoxClicks :
        RequestOf(i).state = "bodyParsed" =>
            IF RenderingThrows(clicks[i].result)
            THEN /\ clicks[i].pc = "fallback"
                 /\ IsDemoReport(PopupOf(i), clicks[i].lat, clicks[i].lon)
            ELSE /\ clicks[i].pc = "rendered"
                 /\ ShowsPayload(PopupOf(i), clicks[i].result)

\* One response without data fell back to demo data; one without
\* crop_recommendations was rendered, with the placeholder and the badge.
C3_Witness ==
    /\ Len(clicks) = 2
    /\ InBoxClicks = { 1, 2 }
    /\ RequestOf(1).state = "bodyParsed"
    /\ clicks[1].result = Some(Envelope(Some(TRUE), Undefined))
    /\ clicks[1].pc = "fallback"
    /\ RequestOf(2).state = "bodyParsed"
    /\ clicks[2].result # Undefined
    /\ Get(clicks[2].result).data # Undefined
    /\ Get(Get(clicks[2].result).data).crop_recommendations = Undefined
    /\ clicks[2].pc = "rendered"
    /\ PopupOf(2).noCropsPlaceholder
    /\ PopupOf(2).cacheBadge

\* What the popup of click i has to show, given only where click i's own
\* request and handler stand.
OwnOutcomeShown(i) ==
    CASE clicks[i].pc \in { "awaitFetch", "awaitJson" } ->
             PopupOf(i).kind = "loading"
      [] clicks[i].pc = "rendered" ->
             ShowsPayload(PopupOf(i), clicks[i].result)
      [] clicks[i].pc = "fallback" ->
             IsDemoReport(PopupOf(i), clicks[i].lat, clicks[i].lon)
      [] OTHER -> FALSE

\* C4: with several requests in flight, every click keeps its own popup and
\* its own request; a request stays pending until its own response or
\* failure arrives (no later click cancels it), and each popup shows the
\* outcome of its own click's request only.
C4_EachCompletionWritesItsOwnPopup ==
    /\ \A i, j \in InBoxClicks : i # j => clicks[i].popup # clicks[j].popup
    /\ \A i \in InBoxClicks :
           /\ clicks[i].popup \in DOMAIN popups
           /\ OwnOutcomeShown(i)
           /\ clicks[i].pc = "awaitFetch" <=> RequestOf(i).state = "pending"
           /\ clicks[i].pc = "awaitJson" <=> RequestOf(i).state = "status2xx"

\* The later click's response arrived first: its popup shows a report while
\* the earlier click, at another coordinate, is still waiting.
C4_Witness ==
    /\ Len(clicks) = 2
    /\ InBoxClicks = { 1, 2 }
    /\ clicks[1].lat # clicks[2].lat
    /\ clicks[1].pc = "awaitFetch"
    /\ PopupOf(1).kind = "loading"
    /\ clicks[2].pc \in { "rendered", "fallback" }
    /\ PopupOf(2).kind = "report"

\* The request of click i has not completed: no response yet, or the body of
\* a 2xx response still outstanding.
Outstanding(i) == RequestOf(i).state \in { "pending", "status2xx" }

\* C5 as claimed: while the request is outstanding the popup shows the
\* spinner, and demo data is shown only after a transport failure or a
\* non-success status.
C5_DemoOnlyAfterFailureOrStatus ==
    \A i \in InBoxClicks :
        /\ Outstanding(i) => PopupOf(i).kind = "loading"
        /\ clicks[i].pc = "fallback" =>
               RequestOf(i).state \in { "networkError", "non2xx" }

\* C5, amended: while the request is outstanding the popup shows the
\* spinner; demo data is shown only after a transport failure, a non-success
\* status, a body that cannot be read as JSON, or a parsed body whose
\* rendering throws.
C5_DemoOnlyAfterCompletion ==
    \A i \in InBoxClicks :
        /\ Outstanding(i) =>
               /\ PopupOf(i).kind = "loading"
               /\ clicks[i].pc \in { "awaitFetch", "awaitJson" }
        /\ clicks[i].pc = "fallback" =>
               \/ RequestOf(i).state \in { "networkError", "non2xx", "bodyError" }
               \/ /\ RequestOf(i).state = "bodyParsed"
                  /\ RenderingThrows(clicks[i].result)

\* One request hangs with its popup on the spinner, while another click got
\* a 2xx response with a null body and shows demo data.
C5_Witness ==
    /\ Len(clicks) = 2
    /\ InBoxClicks = { 1, 2 }
    /\ RequestOf(1).state = "pending"
    /\ PopupOf(1).kind = "loading"
    /\ RequestOf(2).state = "bodyParsed"
    /\ clicks[2].result = Undefined
    /\ clicks[2].pc = "fallback"

\* C6: a 2xx response with a complete envelope is rendered from its data and
\* with its cached flag: the badge is shown exactly when cached is true, the
\* fields shown are the payload's, demo data is not substituted.
C6_SuccessRendersPayloadAndCachedFlag ==
    \A i \in InBoxClicks :
        (RequestOf(i).state = "bodyParsed" /\ EnvelopeComplete(clicks[i].result))
            => /\ clicks[i].pc = "rendered"
               /\ ShowsPayload(PopupOf(i), clicks[i].result)
               /\ PopupOf(i).cacheBadge = Get(Get(clicks[i].result).cached)
               /\ PopupOf(i).region = "KPK"
               /\ PopupOf(i).soil.soil_type = Some("Clay loam")

\* A cached and an uncached complete response, each rendered.
C6_Witness ==
    /\ Len(clicks) = 2
    /\ InBoxClicks = { 1, 2 }
    /\ EnvelopeComplete(clicks[1].result)
    /\ EnvelopeComplete(clicks[2].result)
    /\ PopupOf(1).kind = "report" /\ PopupOf(1).cacheBadge
    /\ PopupOf(2).kind = "report" /\ ~PopupOf(2).cacheBadge
    /\ ~PopupOf(2).noCropsPlaceholder

\* The requests of click i are answered eventually: fetch() settles, and so
\* does response.json() after a 2xx status.
RequestCompletes(i) ==
    \/ FetchOk(i)
    \/ \E rnd \in RandomDraws : FetchNotOk(i, rnd)
    \/ \E rnd \in RandomDraws : FetchReject(i, rnd)
    \/ \E result \in Bodies, rnd \in RandomDraws : JsonResolve(i, result, rnd)
    \/ \E rnd \in RandomDraws : JsonReject(i, rnd)

\* The click handler and the network only.  The search and the start-up
\* timer leave clicks, requests and popups unchanged, so they are left out
\* of the liveness check.
NextClicks ==
    \/ \E c \in ClickCoordinates : Click(c[1], c[2])
    \/ \E i \in DOMAIN clicks : RequestCompletes(i)

\* The click handler under the assumption that every issued request
\* completes.
LiveSpec ==
    /\ Init
    /\ [][NextClicks]_vars
    /\ \A i \in 1..MaxClicks : WF_vars(i \in DOMAIN clicks /\ RequestCompletes(i))

\* C10: if every issued request completes, every click inside the box
\* eventually has its popup showing a report; and once a request has
\* completed its popup shows a report (payload or demo data), never the
\* spinner and never an error, and its handler has not ended in an uncaught
\* error.
C10_EveryInBoundsClickEndsInAReport ==
    /\ [](\A i \in InBoxClicks :
              ~Outstanding(i) =>
                  /\ clicks[i].pc \in { "rendered", "fallback" }
                  /\ PopupOf(i).kind = "report")
    /\ \A i \in 1..MaxClicks :
           (i \in InBoxClicks) ~>
               (/\ i \in InBoxClicks
                /\ clicks[i].pc \in { "rendered", "fallback" }
                /\ PopupOf(i).kind = "report")

\* Both clicks ended in a report, one after a body that was not JSON and one
\* after a payload without weather.
C10_Witness ==
    /\ Len(clicks) = 2
    /\ InBoxClicks = { 1, 2 }
    /\ RequestOf(1).state = "bodyError"
    /\ PopupOf(1).kind = "report"
    /\ RequestOf(2).state = "bodyParsed"
    /\ clicks[2].result # Undefined
    /\ Get(clicks[2].result).data # Undefined
    /\ Get(Get(clicks[2].result).data).weather = Undefined
    /\ PopupOf(2).kind = "report"

(* ========================= claims about the search ===================== *)

\* A step that is one call of searchLocation, and the query it trims.
SearchCall == searches' = searches + 1

Submitted == trim(searchInput)

\* The whole query is two comma-separated numbers (optional sign, optional
\* decimals, optional whitespace after the comma).
CoordinateShaped(q) ==
    \E m \in PatternMatches(q) : m[1] = 1 /\ m[4] = Len(q)

\* The query contains such a pair somewhere.
ContainsCoordinatePair(q) == PatternMatches(q) # {}

\* The leftmost pair in q, its second number taken as long as possible, as
\* <<latitude, longitude>>.
LeftmostPair(q) ==
    LET all == PatternMatches(q)
        m == CHOOSE m \in all :
                 \A n \in all : m[1] < n[1] \/ (m[1] = n[1] /\ m[4] >= n[4])
    IN  << parseFloat(SubSeq(q, m[1], m[2])), parseFloat(SubSeq(q, m[3], m[4])) >>

\* The positions in the registry of the cities whose name contains q, case
\* ignored.
CityHits(q) ==
    { k \in DOMAIN CityRegistry :
        includes(toLowerCase(CityRegistry[k].name), toLowerCase(q)) }

FirstCity(q) == CityRegistry[CHOOSE k \in CityHits(q) : \A j \in CityHits(q) : k <= j]

\* What the step did, read off the map and the alerts.
MarkerAdded == Len(markers') = Len(markers) + 1 /\ SubSeq(markers', 1, Len(markers)) = markers

NewMarker == markers'[Len(markers')]

Alerted(message) ==
    alerts' = [alerts EXCEPT ![message] = @ + 1]

AlertedAny == \E message \in AlertMessages : Alerted(message)

MapUntouched == view' = view /\ markers' = markers /\ popups' = popups

ResolvedTo(lat, lon, zoom) ==
    /\ view' = [ center |-> <<lat, lon>>, zoom |-> zoom ]
    /\ MarkerAdded
    /\ NewMarker.lat = lat /\ NewMarker.lon = lon
    /\ alerts' = alerts

TookCoordinateBranch ==
    \/ Alerted(CoordinateAlert) /\ MapUntouched
    \/ MarkerAdded /\ NewMarker.popup.kind = "coordinates" /\ view'.zoom = CoordinateZoom

TookCityBranch ==
    \/ Alerted(CityAlert) /\ MapUntouched
    \/ MarkerAdded /\ NewMarker.popup.kind = "city" /\ view'.zoom = CityZoom

\* C7 as claimed: the coordinate branch is taken exactly when the query is
\* coordinate-shaped, and every other non-empty query goes to the registry.
C7_CoordinateBranchIffCoordinateShaped ==
    [][ LET q == Submitted
        IN  (SearchCall /\ q # << >>) =>
                /\ TookCoordinateBranch <=> CoordinateShaped(q)
                /\ TookCityBranch <=> ~CoordinateShaped(q) ]_vars

\* C7, amended: the coordinate branch is taken exactly when the query
\* contains a coordinate pair anywhere (the pattern is not anchored), and it
\* then resolves the leftmost pair: recentre at zoom 12 plus a marker when
\* the pair is inside the inclusive box, the out-of-bounds alert otherwise,
\* never a city lookup.  Every other non-empty query goes to the registry:
\* the first city whose name contains it, at zoom 10 plus a marker, or the
\* not-found alert.
C7_CoordinateBranchIffQueryContainsPair ==
    [][ LET q == Submitted
        IN  (SearchCall /\ q # << >>) =>
            IF ContainsCoordinatePair(q)
            THEN LET pair == LeftmostPair(q)
                 IN  /\ TookCoordinateBranch /\ ~TookCityBranch
                     /\ IF InBox(pair[1], pair[2])
                        THEN /\ ResolvedTo(pair[1], pair[2], CoordinateZoom)
                             /\ NewMarker.popup =
                                    [ kind |-> "coordinates",
                                      lat |-> toFixed4(pair[1]),
                                      lon |-> toFixed4(pair[2]) ]
                        ELSE Alerted(CoordinateAlert) /\ MapUntouched
            ELSE /\ TookCityBranch /\ ~TookCoordinateBranch
                 /\ IF CityHits(q) # {}
                    THEN LET city == FirstCity(q)
                         IN  /\ ResolvedTo(city.lat, city.lon, CityZoom)
                             /\ NewMarker.popup =
                                    [ kind |-> "city", name |-> city.name,
                                      province |-> city.province ]
                    ELSE Alerted(CityAlert) /\ MapUntouched ]_vars

\* A query with a city name in front of a coordinate pair was resolved as
\* that coordinate.
C7_Witness ==
    /\ searches = 1
    /\ query = << "Q","u","e","t","t","a"," ","3","0",".","1","8",",",
                  "6","6",".","9","7" >>
    /\ view = [ center |-> <<3018000, 6697000>>, zoom |-> CoordinateZoom ]
    /\ Len(markers) = 1
    /\ markers[1].popup.kind = "coordinates"

\* The step resolved the search (recentre plus one marker), or showed one
\* message.
Resolved == MarkerAdded /\ view'.center = << NewMarker.lat, NewMarker.lon >>

\* C8 as claimed: every search submission ends in exactly one of a
\* resolution and a message, the empty query included.
C8_EverySearchResolvesOrReports ==
    [][ SearchCall =>
            \/ Resolved /\ alerts' = alerts
            \/ AlertedAny /\ MapUntouched ]_vars

\* C8, amended: every submission of a non-empty query ends in exactly one of
\* a resolution and a message (the out-of-bounds alert for a coordinate
\* outside the box, the not-found alert for no matching city); an empty
\* query returns silently, with no message and nothing changed.
C8_NonEmptySearchResolvesOrReports ==
    [][ LET q == Submitted
        IN  SearchCall =>
            IF q = << >>
            THEN MapUntouched /\ alerts' = alerts /\ searchInput' = searchInput
            ELSE /\ \/ Resolved /\ alerts' = alerts
                    \/ AlertedAny /\ MapUntouched
                 /\ (ContainsCoordinatePair(q)
                       /\ ~InBox(LeftmostPair(q)[1], LeftmostPair(q)[2]))
                        => Alerted(CoordinateAlert)
                 /\ (~ContainsCoordinatePair(q) /\ CityHits(q) = {})
                        => Alerted(CityAlert) ]_vars

\* A search for a name no city contains was answered by the not-found alert.
C8_Witness ==
    /\ searches = 1
    /\ query = << "i","s","l","a","m","a","b","a","d" >>
    /\ alerts[CityAlert] = 1
    /\ markers = << >>

\* The search of q fails: empty, an explicit coordinate outside the box, or
\* no matching city.
SearchFails(q) ==
    \/ q = << >>
    \/ /\ ContainsCoordinatePair(q)
       /\ ~InBox(LeftmostPair(q)[1], LeftmostPair(q)[2])
    \/ ~ContainsCoordinatePair(q) /\ CityHits(q) = {}

\* C9: a failed search leaves the view, the markers and the popups as they
\* were, and no step changes the city registry.
C9_FailedSearchLeavesMapUnchanged ==
    [][ /\ (SearchCall /\ LET q == Submitted IN SearchFails(q)) =>
               /\ view' = view
               /\ markers' = markers
               /\ popups' = popups
        /\ majorCities' = majorCities ]_vars

\* On a map the user had moved, a search for a coordinate outside the box
\* was rejected and the map is where the user left it.
C9_Witness ==
    /\ searches = 1
    /\ query = << "1","0","0",","," ","1","0","0" >>
    /\ alerts[CoordinateAlert] = 1
    /\ view \in UserViews
    /\ view.zoom # InitialZoom
    /\ markers = << >>
    /\ majorCities = CityRegistry

====
